---------------------------- MODULE Spec2Model ----------------------------
(***************************************************************************)
(* Model of the AI request gateway of cubical-ally: the rate limiter of    *)
(* backend/ai_services/ratelimit.py, the views that call it, and the       *)
(* service functions of backend/ai_services/services.py.                   *)
(*                                                                         *)
(* Text is modelled as a sequence of symbols (one-character strings, or a  *)
(* whole word where the code never looks inside it), so that split, strip  *)
(* and the f-string cache keys are computed as the code computes them.     *)
(***************************************************************************)
EXTENDS Integers, Sequences, FiniteSets, TLC

VARIABLES
    cache,      \* django cache: key -> [value, ttl], absent keys not in DOMAIN
    hasTtl,     \* hasattr(cache, 'ttl'): a property of the configured backend
    clients,    \* the calls (request, endpoint_type) issued in this run
    win,        \* observer: per key, the calls made in the current window
    last,       \* observer: the last check_rate_limit call and what it returned
    inflight,   \* calls between their cache.get and their return: a bag of
                \* [call, current]
    tally,      \* observer: calls started, admitted and denied so far
    keys,       \* the cache keys computed for the calls of a run: call -> key
    gw,         \* the request a view is handling, and how far it has got
    logs,       \* the rows of AIInteractionLog, oldest first
    handled,    \* requests handled so far
    apiKey,     \* settings.ANTHROPIC_API_KEY is set
    hashed,     \* observer: the input_text of each row of logs, oldest first
    ex,         \* one response text and what chat_json made of it
    documents,  \* the rows of GeneratedDocument
    evidence,   \* the rows of Evidence
    pending,    \* per worker, the generate request between its count of
                \* the existing documents and its create
    made,       \* documents created so far: the source of ids and of
                \* generated_at
    answer      \* observer: the last request or task run and its response

limiterVars == <<cache, hasTtl, clients, win, last>>
concVars    == <<inflight, tally>>
keyVars     == <<keys>>
gwVars      == <<gw, logs, handled, apiKey, hashed>>
exVars      == <<ex>>
storeVars   == <<documents, evidence, pending, made, answer>>

vars == <<limiterVars, concVars, keyVars, gwVars, exVars, storeVars>>

----------------------------------------------------------------------------
(* Bounds of the model *)

\* calls beyond the effective limit that are still issued in one window
MaxOver == 2

\* calls started in a run of overlapping calls
MaxCalls == 7

\* requests the views handle in a run
MaxRequests == 2

\* the amounts of time (seconds) by which the clock advances in one step
TickSteps == {30, 60, 300}

----------------------------------------------------------------------------
(* ratelimit.py: configuration *)

PRO_MULTIPLIER == 3

RATE_LIMITS ==
    [c \in {"ai_interpret", "ai_enhance", "ai_coaching", "ai_document",
            "ai_paths", "ai_default"} |->
        CASE c = "ai_interpret" -> [limit |-> 10, window |-> 60]
          [] c = "ai_enhance"   -> [limit |-> 20, window |-> 60]
          [] c = "ai_coaching"  -> [limit |-> 15, window |-> 60]
          [] c = "ai_document"  -> [limit |-> 5,  window |-> 300]
          [] c = "ai_paths"     -> [limit |-> 10, window |-> 60]
          [] c = "ai_default"   -> [limit |-> 30, window |-> 60]]

\* RATE_LIMITS.get(endpoint_type, RATE_LIMITS['ai_default'])
Config(endpoint_type) ==
    IF endpoint_type \in DOMAIN RATE_LIMITS
    THEN RATE_LIMITS[endpoint_type]
    ELSE RATE_LIMITS["ai_default"]

----------------------------------------------------------------------------
(* Callers.  request.user is absent (no attribute), the anonymous user, or *)
(* an authenticated User row with its subscription_tier.                   *)

NoUser        == [kind |-> "none", id |-> "-",  tier |-> "-"]
AnonymousUser == [kind |-> "anon", id |-> "-",  tier |-> "-"]
FreeUser      == [kind |-> "auth", id |-> "u1", tier |-> "free"]
ProUser       == [kind |-> "auth", id |-> "u2", tier |-> "pro"]
OtherFreeUser == [kind |-> "auth", id |-> "u3", tier |-> "free"]

Users == {NoUser, AnonymousUser, FreeUser, ProUser, OtherFreeUser}

\* user and user.is_authenticated
IsAuthenticated(user) == user.kind = "auth"

----------------------------------------------------------------------------
(* Text helpers: str.split(',')[0] and str.strip() on symbol sequences *)

\* the characters str.strip() removes
IsSpace(ch) == ch \in {" ", "\n", "\t"}

RECURSIVE FirstField(_)
\* s.split(',')[0]: the symbols before the first comma
FirstField(s) ==
    IF s = <<>> \/ Head(s) = "," THEN <<>>
    ELSE <<Head(s)>> \o FirstField(Tail(s))

RECURSIVE LStrip(_)
LStrip(s) == IF s # <<>> /\ IsSpace(Head(s)) THEN LStrip(Tail(s)) ELSE s

RECURSIVE RStrip(_)
RStrip(s) ==
    IF s # <<>> /\ IsSpace(s[Len(s)])
    THEN RStrip(SubSeq(s, 1, Len(s) - 1))
    ELSE s

Strip(s) == RStrip(LStrip(s))

\* request.META.get('REMOTE_ADDR', 'unknown'); an absent entry is <<>>
Unknown == <<"unknown">>

RECURSIVE Spaces(_)
Spaces(n) == IF n = 0 THEN <<>> ELSE <<" ">> \o Spaces(n - 1)

RECURSIVE JoinAddresses(_, _)
\* the header text a chain of proxies writes: the addresses, comma separated,
\* with pad spaces after each comma
JoinAddresses(addrs, pad) ==
    IF addrs = <<>> THEN <<>>
    ELSE IF Len(addrs) = 1 THEN Head(addrs)
    ELSE Head(addrs) \o <<",">> \o Spaces(pad) \o JoinAddresses(Tail(addrs), pad)

\* request.META.get('HTTP_X_FORWARDED_FOR'): None and '' are both falsy,
\* and both are <<>> here
HttpXForwardedFor(request) == JoinAddresses(request.forwarded, request.pad)

\* mutant: the last entry of the header (the nearest proxy) taken as client
get_client_ip_LastEntry(request) ==
    LET x_forwarded_for == HttpXForwardedFor(request)
    IN  IF x_forwarded_for # <<>>
        THEN Strip(request.forwarded[Len(request.forwarded)])
        ELSE IF request.hasRemote THEN request.remote ELSE Unknown

\* get_client_ip(request)
get_client_ip(request) ==
    LET x_forwarded_for == HttpXForwardedFor(request)
    IN  IF x_forwarded_for # <<>>
        THEN Strip(FirstField(x_forwarded_for))
        ELSE IF request.hasRemote THEN request.remote ELSE Unknown

----------------------------------------------------------------------------
(* Cache keys: the f-strings of get_rate_limit_key and check_rate_limit *)

get_rate_limit_key(user, endpoint_type) ==
    IF IsAuthenticated(user)
    THEN <<"ratelimit", ":", endpoint_type, ":", "user", ":", user.id>>
    ELSE <<"ratelimit", ":", endpoint_type, ":", "anon">>

\* mutant: keys that leave out the endpoint type
RateKey_NoCategory(call) ==
    IF IsAuthenticated(call.request.user)
    THEN <<"ratelimit", ":", "user", ":", call.request.user.id>>
    ELSE <<"ratelimit", ":", "ip", ":">> \o get_client_ip(call.request)

\* check_rate_limit, lines 62-68
RateKey(call) ==
    IF IsAuthenticated(call.request.user)
    THEN get_rate_limit_key(call.request.user, call.endpoint_type)
    ELSE <<"ratelimit", ":", call.endpoint_type, ":", "ip", ":">>
            \o get_client_ip(call.request)

\* mutant: the multiplier applied to every authenticated caller
EffectiveLimit_AnyAuthenticated(call) ==
    IF IsAuthenticated(call.request.user)
    THEN Config(call.endpoint_type).limit * PRO_MULTIPLIER
    ELSE Config(call.endpoint_type).limit

\* check_rate_limit, lines 52-60
EffectiveLimit(call) ==
    LET limit == Config(call.endpoint_type).limit
        user  == call.request.user
    IN  IF IsAuthenticated(user) /\ user.tier = "pro"
        THEN limit * PRO_MULTIPLIER
        ELSE limit

Window(call) == Config(call.endpoint_type).window

----------------------------------------------------------------------------
(* The cache backend, as check_rate_limit uses it *)

\* cache.get(key, default)
cache_get(c, key, default) ==
    IF key \in DOMAIN c THEN c[key].value ELSE default

\* cache.set(key, value, timeout)
cache_set(c, key, value, timeout) ==
    [k \in DOMAIN c \cup {key} |->
        IF k = key THEN [value |-> value, ttl |-> timeout] ELSE c[k]]

\* mutant: an incr that stores the new value with the backend's default
\* timeout of 300 seconds, as a get-then-set incr does
cache_incr_ResetsExpiry(c, key) ==
    [c EXCEPT ![key] = [value |-> @.value + 1, ttl |-> 300]]

\* cache.incr(key) on a key that exists: the value grows, the expiry stays
cache_incr(c, key) ==
    [c EXCEPT ![key] = [value |-> @.value + 1, ttl |-> @.ttl]]

\* cache.ttl(key) of django-redis: 0 for a key that is gone
cache_ttl(c, key) == IF key \in DOMAIN c THEN c[key].ttl ELSE 0

\* the store after d seconds: entries whose time-to-live ran out are gone
Expire(c, d) ==
    [k \in {x \in DOMAIN c : c[x].ttl > d} |->
        [value |-> c[k].value, ttl |-> c[k].ttl - d]]

----------------------------------------------------------------------------
(* check_rate_limit, step by step *)

\* line 71: current = cache.get(key, 0)
ReadCurrent(c, call) == cache_get(c, RateKey(call), 0)

\* mutant: a denied return that always reports the whole window
DeniedResult_IgnoresTtl(c, ttlSupported, call) ==
    [allowed |-> FALSE, remaining |-> 0, reset |-> Window(call)]

\* lines 73-76: the denied return; ttlSupported is hasattr(cache, 'ttl')
DeniedResult(c, ttlSupported, call) ==
    LET ttl == IF ttlSupported THEN cache_ttl(c, RateKey(call)) ELSE Window(call)
    IN  [allowed   |-> FALSE,
         remaining |-> 0,
         reset     |-> IF ttl # 0 THEN ttl ELSE Window(call)]

\* mutant: an admitted call counts twice
Consume_CountsTwice(c, call, current) ==
    cache_set(c, RateKey(call), current + 2,
              IF RateKey(call) \in DOMAIN c THEN c[RateKey(call)].ttl
              ELSE Window(call))

\* mutant: every admitted call stores the new count with a whole window
Consume_RenewsWindow(c, call, current) ==
    cache_set(c, RateKey(call), current + 1, Window(call))

\* lines 78-85: the write of an admitted call that read current
Consume(c, call, current) ==
    IF current = 0
    THEN cache_set(c, RateKey(call), 1, Window(call))
    ELSE IF RateKey(call) \in DOMAIN c
         THEN cache_incr(c, RateKey(call))
         ELSE cache_set(c, RateKey(call), 1, Window(call))   \* except ValueError

\* lines 87-88: the admitted return
AdmittedResult(call, current) ==
    [allowed   |-> TRUE,
     remaining |-> EffectiveLimit(call) - current - 1,
     reset     |-> Window(call)]

\* mutant: the comparison of line 73 written as >
IsDenied_OffByOne(call, current) == current > EffectiveLimit(call)

\* line 73: the branch taken by a call that read current
IsDenied(call, current) == current >= EffectiveLimit(call)

----------------------------------------------------------------------------
(* The requests and calls of a run *)

AddrA  == <<"a">>
AddrB  == <<"b">>
AddrV6 == <<":", ":", "1">>

\* a request that reaches the server directly from addr
Direct(user, addr) ==
    [user |-> user, forwarded |-> <<>>, pad |-> 0,
     hasRemote |-> TRUE, remote |-> addr]

\* a request that reaches the server through proxies, which wrote chain
\* into the forwarded-for header; the connection comes from proxy
Proxied(user, chain, pad, proxy) ==
    [user |-> user, forwarded |-> chain, pad |-> pad,
     hasRemote |-> TRUE, remote |-> proxy]

\* a request whose META holds no REMOTE_ADDR
NoRemote(user) ==
    [user |-> user, forwarded |-> <<>>, pad |-> 0,
     hasRemote |-> FALSE, remote |-> <<>>]

Call(request, endpoint_type) ==
    [request |-> request, endpoint_type |-> endpoint_type]

\* the endpoint types the views pass, the default, and one that RATE_LIMITS
\* does not configure
EndpointTypes == DOMAIN RATE_LIMITS \cup {"ai_other"}

SingleScenarios ==
    {{Call(Direct(u, AddrA), e)} :
        u \in {AnonymousUser, FreeUser, ProUser}, e \in EndpointTypes}

PairScenarios ==
    { {Call(Direct(AnonymousUser, AddrA), "ai_interpret"),
       Call(Direct(AnonymousUser, AddrA), "ai_document")},
      {Call(Direct(AnonymousUser, AddrA), "ai_paths"),
       Call(Proxied(AnonymousUser, <<AddrA, AddrB>>, 1, AddrB), "ai_paths")},
      {Call(Direct(AnonymousUser, AddrA), "ai_interpret"),
       Call(Direct(AnonymousUser, AddrB), "ai_interpret")},
      {Call(Direct(NoUser, AddrV6), "ai_paths"),
       Call(Direct(FreeUser, AddrV6), "ai_paths")},
      {Call(Direct(FreeUser, AddrA), "ai_document"),
       Call(Direct(FreeUser, AddrB), "ai_document")},
      {Call(Direct(FreeUser, AddrA), "ai_document"),
       Call(Direct(ProUser, AddrA), "ai_interpret")} }

Scenarios == SingleScenarios \cup PairScenarios

----------------------------------------------------------------------------
(* Observer: who a caller is and which window a call falls in, told from   *)
(* the request itself and the clock, not from the cache                    *)

ClientAddress(request) ==
    IF request.forwarded # <<>> THEN request.forwarded[1]
    ELSE IF request.hasRemote THEN request.remote ELSE Unknown

CallerIdentity(request) ==
    IF IsAuthenticated(request.user)
    THEN <<"user", request.user.id>>
    ELSE <<"ip", ClientAddress(request)>>

CounterId(call) == <<CallerIdentity(call.request), call.endpoint_type>>

TierMultiplier(user) ==
    IF IsAuthenticated(user) /\ user.tier = "pro" THEN 3 ELSE 1

\* a call for counter id opens a new window
OpensWindow(w, id, window) == id \notin DOMAIN w \/ w[id].age >= window

Min(a, b) == IF a < b THEN a ELSE b

NoCall == Call(Direct(NoUser, <<>>), "-")

\* None
Nothing == [nothing |-> TRUE]

\* no request is being handled
NoRequest ==
    [pc |-> "idle", view |-> "-", request |-> Direct(NoUser, <<>>),
     limit |-> [allowed |-> FALSE, remaining |-> 0, reset |-> 0],
     todo |-> <<>>, trace |-> <<>>, logs0 |-> 0, status |-> 0,
     prompt |-> <<>>, valid_codes |-> {}, payload |-> Nothing,
     data |-> Nothing, result |-> Nothing, error |-> "", sent |-> 0]

\* chat_json has not been called
NoExtraction == [pc |-> "idle"]

\* no task has run and no request was answered
NoAnswer == [op |-> "none"]

\* no worker is between its count and its create
Workers == {"w1", "w2"}
Idle == [idle |-> TRUE]

\* a database without documents and evidence
EmptyStore ==
    /\ documents = {}
    /\ evidence = {}
    /\ pending = [w \in Workers |-> Idle]
    /\ made = 0
    /\ answer = NoAnswer

NoTally == [started |-> 0, admitted |-> 0, denied |-> 0, elapsed |-> FALSE]

NoLast ==
    [done |-> FALSE, call |-> NoCall, nth |-> 0, afterFull |-> FALSE,
     result |-> [allowed |-> FALSE, remaining |-> 0, reset |-> 0]]

----------------------------------------------------------------------------
(* Calls that run one after another *)

Init ==
    /\ cache = <<>>
    /\ hasTtl \in BOOLEAN
    /\ clients \in Scenarios
    /\ win = <<>>
    /\ last = NoLast
    /\ inflight = <<>>
    /\ tally = NoTally
    /\ keys = <<>>
    /\ EmptyStore
    /\ gw = NoRequest
    /\ logs = <<>>
    /\ handled = 0
    /\ apiKey = TRUE
    /\ hashed = <<>>
    /\ ex = NoExtraction

\* one whole call of check_rate_limit(request, endpoint_type)
CheckRateLimit(call) ==
    LET current == ReadCurrent(cache, call)
        id      == CounterId(call)
        fresh   == OpensWindow(win, id, Window(call))
        nth     == IF fresh THEN 1 ELSE win[id].n + 1
    IN  /\ nth <= EffectiveLimit(call) + MaxOver
        /\ cache' = IF IsDenied(call, current)
                    THEN cache
                    ELSE Consume(cache, call, current)
        /\ win' = [k \in DOMAIN win \cup {id} |->
                      IF k = id
                      THEN [n |-> nth, age |-> IF fresh THEN 0 ELSE win[id].age]
                      ELSE win[k]]
        /\ last' = [done      |-> TRUE,
                    call      |-> call,
                    nth       |-> nth,
                    afterFull |-> /\ fresh
                                  /\ id \in DOMAIN win
                                  /\ win[id].n >= EffectiveLimit(call),
                    result    |-> IF IsDenied(call, current)
                                  THEN DeniedResult(cache, hasTtl, call)
                                  ELSE AdmittedResult(call, current)]
        /\ UNCHANGED <<hasTtl, clients, concVars, keyVars, gwVars, exVars, storeVars>>

\* d seconds pass
Tick(d) ==
    /\ cache' = Expire(cache, d)
    /\ win' = [k \in DOMAIN win |->
                  [n |-> win[k].n,
                   age |-> Min(win[k].age + d, Config(k[2]).window)]]
    /\ last' = NoLast
    /\ UNCHANGED <<hasTtl, clients, concVars, keyVars, gwVars, exVars, storeVars>>

Next ==
    \/ \E call \in clients : CheckRateLimit(call)
    \/ \E d \in TickSteps : Tick(d)

Spec == Init /\ [][Next]_vars

----------------------------------------------------------------------------
(* Calls that overlap: each cache operation of check_rate_limit is a step  *)
(* of its own, and other calls' operations run in between                  *)

BagAdd(b, x) ==
    [y \in DOMAIN b \cup {x} |->
        IF y = x THEN (IF x \in DOMAIN b THEN b[x] + 1 ELSE 1) ELSE b[y]]

BagRemove(b, x) ==
    [y \in {z \in DOMAIN b : z # x \/ b[z] > 1} |->
        IF y = x THEN b[x] - 1 ELSE b[y]]

ConcScenarios ==
    {{Call(Direct(u, AddrA), "ai_document")} : u \in {AnonymousUser, FreeUser}}

ConcInit ==
    /\ cache = <<>>
    /\ hasTtl \in BOOLEAN
    /\ clients \in ConcScenarios
    /\ win = <<>>
    /\ last = NoLast
    /\ inflight = <<>>
    /\ tally = NoTally
    /\ keys = <<>>
    /\ EmptyStore
    /\ gw = NoRequest
    /\ logs = <<>>
    /\ handled = 0
    /\ apiKey = TRUE
    /\ hashed = <<>>
    /\ ex = NoExtraction

\* lines 52-71: a call resolves its limit and key and reads the count
BeginCall(call) ==
    /\ tally.started < MaxCalls
    /\ inflight' = BagAdd(inflight,
                       [call |-> call, current |-> ReadCurrent(cache, call)])
    /\ tally' = [tally EXCEPT !.started = @ + 1]
    /\ UNCHANGED <<limiterVars, keyVars, gwVars, exVars, storeVars>>

\* lines 73-76: a call that read a count at or above the limit reads the
\* time-to-live and returns
FinishDenied(p) ==
    /\ p \in DOMAIN inflight
    /\ IsDenied(p.call, p.current)
    /\ inflight' = BagRemove(inflight, p)
    /\ tally' = [tally EXCEPT !.denied = @ + 1]
    /\ last' = [done |-> TRUE, call |-> p.call, nth |-> 0, afterFull |-> FALSE,
                result |-> DeniedResult(cache, hasTtl, p.call)]
    /\ UNCHANGED <<cache, hasTtl, clients, win, keyVars, gwVars, exVars, storeVars>>

\* lines 78-88: a call that read a count below the limit writes and returns
FinishAdmitted(p) ==
    /\ p \in DOMAIN inflight
    /\ ~IsDenied(p.call, p.current)
    /\ cache' = Consume(cache, p.call, p.current)
    /\ inflight' = BagRemove(inflight, p)
    /\ tally' = [tally EXCEPT !.admitted = @ + 1]
    /\ last' = [done |-> TRUE, call |-> p.call, nth |-> 0, afterFull |-> FALSE,
                result |-> AdmittedResult(p.call, p.current)]
    /\ UNCHANGED <<hasTtl, clients, win, keyVars, gwVars, exVars, storeVars>>

\* d seconds pass while calls are in flight
ConcTick(d) ==
    /\ cache' = Expire(cache, d)
    /\ tally' = [tally EXCEPT !.elapsed = TRUE]
    /\ last' = NoLast
    /\ UNCHANGED <<hasTtl, clients, win, inflight, keyVars, gwVars, exVars, storeVars>>

ConcNext ==
    \/ \E call \in clients : BeginCall(call)
    \/ \E p \in DOMAIN inflight : FinishDenied(p)
    \/ \E p \in DOMAIN inflight : FinishAdmitted(p)
    \/ \E d \in TickSteps : ConcTick(d)

ConcSpec == ConcInit /\ [][ConcNext]_vars

----------------------------------------------------------------------------
(* Claims about calls that run one after another (Spec) *)

\* a step of Spec that is a call of check_rate_limit
IsCallStep == last'.done /\ last' # last

\* C2: in one window the n-th call of an identity for a category is admitted
\* if and only if n <= effective_limit, and the call after the last admitted
\* one is denied with remaining = 0.
C2_NthCallAdmittedIffWithinLimit ==
    last.done =>
        /\ last.result.allowed <=> last.nth <= EffectiveLimit(last.call)
        /\ last.nth = EffectiveLimit(last.call) + 1 =>
                ~last.result.allowed /\ last.result.remaining = 0

C2_Witness ==
    /\ last.done
    /\ last.nth = EffectiveLimit(last.call) + 1
    /\ ~last.result.allowed
    /\ last.result.remaining = 0

\* C4: once the window length has passed since a counter was created, the
\* counter is gone from the store, and the next call for that key is admitted
\* as the first call of a new window, also when the key was exhausted before.
C4_ExpiredCounterAdmitsAgain ==
    /\ \A call \in clients :
            /\ CounterId(call) \in DOMAIN win
            /\ win[CounterId(call)].age >= Window(call)
            => RateKey(call) \notin DOMAIN cache
    /\ last.done /\ last.nth = 1 =>
            /\ last.result.allowed
            /\ last.result.remaining = EffectiveLimit(last.call) - 1
            /\ cache[RateKey(last.call)].value = 1

C4_Witness ==
    /\ last.done
    /\ last.afterFull
    /\ last.nth = 1
    /\ last.result.allowed

\* C5: the effective limit is the base limit of the category times the tier
\* multiplier (1 for unauthenticated and free callers, 3 for pro callers): a
\* call is admitted exactly while its number in the window is at most that
\* product, so a pro caller on a base limit of 10 is denied on call 31.
C5_EffectiveLimitIsBaseTimesTier ==
    last.done =>
        (last.result.allowed <=>
            last.nth <= Config(last.call.endpoint_type).limit
                            * TierMultiplier(last.call.request.user))

C5_Witness ==
    /\ last.done
    /\ last.call.request.user.tier = "pro"
    /\ Config(last.call.endpoint_type).limit = 10
    /\ last.nth = 31
    /\ ~last.result.allowed

\* C6: a call for one category changes no counter that a call of another
\* category uses, and an anonymous caller is admitted on each category up to
\* that category's own limit whatever it did on the others; a denied call
\* reports a reset time within the window.
C6_CategoriesIndependent ==
    [][IsCallStep =>
        /\ \A other \in clients :
                other.endpoint_type # last'.call.endpoint_type =>
                    /\ (RateKey(other) \in DOMAIN cache')
                            <=> (RateKey(other) \in DOMAIN cache)
                    /\ RateKey(other) \in DOMAIN cache =>
                            cache'[RateKey(other)] = cache[RateKey(other)]
        /\ ~IsAuthenticated(last'.call.request.user) =>
                /\ last'.result.allowed <=>
                        last'.nth <= Config(last'.call.endpoint_type).limit
                /\ ~last'.result.allowed =>
                        last'.result.reset <= Window(last'.call)
      ]_vars

\* the interpret counter of an anonymous caller is exhausted and the same
\* caller has just been admitted on ai_document
C6_Witness ==
    LET interpret == Call(Direct(AnonymousUser, AddrA), "ai_interpret")
    IN  /\ last.done
        /\ last.call = Call(Direct(AnonymousUser, AddrA), "ai_document")
        /\ last.result.allowed
        /\ RateKey(interpret) \in DOMAIN cache
        /\ cache[RateKey(interpret)].value = 10

\* C7: a call that finds the count at or above the effective limit returns
\* allowed = false, remaining = 0 and the counter's remaining time-to-live as
\* reset time (the window length when the backend has no ttl), which is never
\* more than the window length; the store is left as it was.
C7_DeniedReportsTimeToLive ==
    [][IsCallStep /\ ReadCurrent(cache, last'.call) >= EffectiveLimit(last'.call) =>
        /\ ~last'.result.allowed
        /\ last'.result.remaining = 0
        /\ last'.result.reset =
                IF hasTtl THEN cache[RateKey(last'.call)].ttl
                          ELSE Window(last'.call)
        /\ last'.result.reset <= Window(last'.call)
        /\ last'.result.reset > 0
      ]_vars

\* a denied call that reports less than the whole window
C7_Witness ==
    /\ last.done
    /\ ~last.result.allowed
    /\ hasTtl
    /\ last.result.reset < Window(last.call)

----------------------------------------------------------------------------
(* Claims about overlapping calls (ConcSpec) *)

\* C1: when k > effective_limit overlapping calls for one key have all
\* returned inside one initially empty window, exactly effective_limit of
\* them were admitted and the other k - effective_limit were denied.
C1_ExactlyLimitAdmitted ==
    \A call \in clients :
        /\ tally.started > EffectiveLimit(call)
        /\ inflight = <<>>
        /\ ~tally.elapsed
        => /\ tally.admitted = EffectiveLimit(call)
           /\ tally.denied = tally.started - EffectiveLimit(call)

\* C3: the stored count of a key never exceeds the tier-adjusted limit of
\* its category by more than one.
C3_CountAtMostLimitPlusOne ==
    \A call \in clients :
        ReadCurrent(cache, call) <= EffectiveLimit(call) + 1

----------------------------------------------------------------------------
(* The key of a call, computed for pairs of calls (KeySpec) *)

KeyRequests ==
    {Direct(u, a) : u \in Users, a \in {AddrA, AddrB, AddrV6}}
    \cup {Proxied(u, chain, pad, AddrB) :
            u \in {NoUser, AnonymousUser, FreeUser},
            chain \in {<<AddrA>>, <<AddrA, AddrB>>, <<AddrB, AddrA>>,
                       <<AddrV6, AddrA>>},
            pad \in {0, 1}}
    \cup {NoRemote(u) : u \in {AnonymousUser, FreeUser}}

KeyCalls ==
    {Call(r, e) : r \in KeyRequests, e \in {"ai_interpret", "ai_paths", "ai_other"}}

KeyInit ==
    /\ clients \in {{a, b} : a \in KeyCalls, b \in KeyCalls}
    /\ keys = <<>>
    /\ EmptyStore
    /\ cache = <<>>
    /\ hasTtl = TRUE
    /\ win = <<>>
    /\ last = NoLast
    /\ inflight = <<>>
    /\ tally = NoTally
    /\ gw = NoRequest
    /\ logs = <<>>
    /\ handled = 0
    /\ apiKey = TRUE
    /\ hashed = <<>>
    /\ ex = NoExtraction

\* check_rate_limit, lines 57-68, for one call of the run
ComputeKey(call) ==
    /\ call \notin DOMAIN keys
    /\ keys' = [c \in DOMAIN keys \cup {call} |->
                    IF c = call THEN RateKey(call) ELSE keys[c]]
    /\ UNCHANGED <<limiterVars, concVars, gwVars, exVars, storeVars>>

KeyNext == \E call \in clients : ComputeKey(call)

KeySpec == KeyInit /\ [][KeyNext]_vars

\* C8: two requests use the same rate counter if and only if they have the
\* same category and are either of the same authenticated user or both
\* unauthenticated with the same client IP (the first entry of the
\* forwarded-for header if there is one, else the connection's address).
C8_SameCounterIffSameIdentity ==
    \A a \in DOMAIN keys : \A b \in DOMAIN keys :
        keys[a] = keys[b] <=>
            /\ a.endpoint_type = b.endpoint_type
            /\ \/ /\ IsAuthenticated(a.request.user)
                  /\ IsAuthenticated(b.request.user)
                  /\ a.request.user.id = b.request.user.id
               \/ /\ ~IsAuthenticated(a.request.user)
                  /\ ~IsAuthenticated(b.request.user)
                  /\ ClientAddress(a.request) = ClientAddress(b.request)

\* an anonymous direct request and an anonymous proxied one, whose header
\* names the same client first, got the same key
C8_Witness ==
    \E a \in DOMAIN keys : \E b \in DOMAIN keys :
        /\ a.request.forwarded = <<>>
        /\ Len(b.request.forwarded) = 2
        /\ b.request.pad = 1
        /\ ~IsAuthenticated(a.request.user)
        /\ a.request.remote # b.request.remote
        /\ keys[a] = keys[b]

----------------------------------------------------------------------------
(* ClaudeClient.chat_json: the text of a response, character by character  *)

MaxPad == 1

\* the character a markdown fence is made of (U+0060), written by name
Backtick == "grave"

Fence == <<Backtick, Backtick, Backtick>>

JsonTag == <<"j", "s", "o", "n">>

StartsWith(s, prefix) ==
    Len(s) >= Len(prefix) /\ SubSeq(s, 1, Len(prefix)) = prefix

EndsWith(s, suffix) ==
    Len(s) >= Len(suffix)
        /\ SubSeq(s, Len(s) - Len(suffix) + 1, Len(s)) = suffix

\* s[n:]
DropFirst(s, n) == SubSeq(s, n + 1, Len(s))

\* s[:-n]
DropLast(s, n) == SubSeq(s, 1, Len(s) - n)

\* s[:n]
Prefix(s, n) == SubSeq(s, 1, Min(n, Len(s)))

\* the documents json.loads accepts among the texts of this model, and the
\* value it returns for each
JsonDocuments ==
    [text \in {<<"{", "}">>,
               <<"[", "]">>,
               <<"1">>,
               <<"[", "1", "]">>} |->
        CASE text = <<"{", "}">> -> [object |-> <<>>]
          [] text = <<"[", "]">> -> [array |-> <<>>]
          [] text = <<"1">>      -> [number |-> 1]
          [] OTHER               -> [array |-> <<[number |-> 1]>>]]

\* json.loads(s): leading and trailing whitespace is allowed, anything else
\* around or inside the document is a JSONDecodeError
json_loads(s) ==
    IF Strip(s) \in DOMAIN JsonDocuments
    THEN [ok |-> TRUE, data |-> JsonDocuments[Strip(s)]]
    ELSE [ok |-> FALSE]

\* chat_json, lines 95-100: the three ifs that remove a markdown fence
Unfence(content) ==
    LET a == IF StartsWith(content, Fence \o JsonTag)
             THEN DropFirst(content, 7) ELSE content
        b == IF StartsWith(a, Fence) THEN DropFirst(a, 3) ELSE a
    IN  IF EndsWith(b, Fence) THEN DropLast(b, 3) ELSE b

\* mutant: a text that does not parse yields the longest document it starts
\* with
ParseContent_BestGuess(content) ==
    LET parsed == json_loads(content)
        starts == {n \in 1..Len(content) :
                        json_loads(SubSeq(content, 1, n)).ok}
        best   == CHOOSE n \in starts : \A m \in starts : m <= n
    IN  IF parsed.ok THEN [ok |-> TRUE, data |-> parsed.data, logged |-> <<>>]
        ELSE IF starts # {}
        THEN [ok |-> TRUE, data |-> json_loads(SubSeq(content, 1, best)).data,
              logged |-> <<>>]
        ELSE [ok |-> FALSE, error |-> "ValueError",
              logged |-> Prefix(content, 500)]

\* chat_json, lines 102-112: json.loads(content.strip()); a JSONDecodeError
\* is logged with content[:500] and raised as ValueError
ParseContent(content) ==
    LET parsed == json_loads(Strip(content))
    IN  IF parsed.ok
        THEN [ok |-> TRUE, data |-> parsed.data, logged |-> <<>>]
        ELSE [ok |-> FALSE, error |-> "ValueError",
              logged |-> Prefix(content, 500)]

\* chat_json, lines 91-112, on the text chat returned
chat_json(text) == ParseContent(Unfence(Strip(text)))

\* the texts a response is made of: a body, perhaps inside one fence or two,
\* perhaps with whitespace around it
NotJson == <<"n", "o", "t", " ", "j", "s", "o", "n">>

Truncated == <<"[", "1">>

TrailingJunk == <<"{", "}", "x">>

\* a text one character longer than the logged prefix
LongJunk == [i \in 1..501 |-> "x"]

Bodies ==
    DOMAIN JsonDocuments \cup {NotJson, Truncated, TrailingJunk, LongJunk, <<>>}

Tags == {"none", "plain", "json", "js", "JSON"}

\* the opening marker of a fence with the given tag
OpenText(tag) ==
    CASE tag = "none"  -> <<>>
      [] tag = "plain" -> Fence
      [] tag = "json"  -> Fence \o JsonTag
      [] tag = "js"    -> Fence \o <<"j", "s">>
      [] tag = "JSON"  -> Fence \o <<"J", "S", "O", "N">>

RECURSIVE Pad(_, _)
Pad(ch, n) == IF n = 0 THEN <<>> ELSE <<ch>> \o Pad(ch, n - 1)

Shapes ==
    [body : Bodies, open : Tags, inner : {"none", "plain", "json"},
     close : BOOLEAN, newline : BOOLEAN, lead : 0..MaxPad, trail : 0..MaxPad]

\* the text of a response of the given shape
Render(shape) ==
    LET sep   == IF shape.newline THEN <<"\n">> ELSE <<>>
        inner == IF shape.inner = "none" THEN shape.body
                 ELSE OpenText(shape.inner) \o sep \o shape.body \o sep
                        \o Fence
    IN  Pad("\n", shape.lead)
            \o OpenText(shape.open)
            \o (IF shape.open = "none" THEN <<>> ELSE sep)
            \o inner
            \o (IF shape.close THEN sep \o Fence ELSE <<>>)
            \o Pad(" ", shape.trail)

ExtractInit ==
    /\ ex \in {[pc |-> "raw", shape |-> shape, text |-> Render(shape)] :
                    shape \in Shapes}
    /\ cache = <<>>
    /\ hasTtl = TRUE
    /\ clients = {}
    /\ win = <<>>
    /\ last = NoLast
    /\ inflight = <<>>
    /\ tally = NoTally
    /\ keys = <<>>
    /\ EmptyStore
    /\ gw = NoRequest
    /\ logs = <<>>
    /\ hashed = <<>>
    /\ handled = 0
    /\ apiKey = TRUE

\* chat_json is called on the text
ChatJson ==
    /\ ex.pc = "raw"
    /\ ex' = [pc |-> "done", shape |-> ex.shape, text |-> ex.text,
              result |-> chat_json(ex.text)]
    /\ UNCHANGED <<limiterVars, concVars, keyVars, gwVars, storeVars>>

ExtractNext == ChatJson

ExtractSpec == ExtractInit /\ [][ExtractNext]_vars

\* a valid document inside exactly one fence with an opening and a closing
\* marker
IsSingleFenced(shape) ==
    /\ shape.body \in DOMAIN JsonDocuments
    /\ shape.open # "none" /\ shape.close /\ shape.inner = "none"

\* a valid document with no fence around it
IsUnwrapped(shape) ==
    /\ shape.body \in DOMAIN JsonDocuments
    /\ shape.open = "none" /\ ~shape.close /\ shape.inner = "none"

\* a fence inside a fence
IsDoubleFenced(shape) ==
    shape.open # "none" /\ shape.close /\ shape.inner # "none"

\* C17, as stated: for every valid JSON document, extraction yields the same
\* payload for the document unwrapped, wrapped in one fence tagged with a
\* language hint and wrapped in one untagged fence; exactly one wrapping
\* layer is stripped, so a document inside two fences is not parsed.
C17_FencedSameAsUnwrapped ==
    ex.pc = "done" =>
        /\ (IsUnwrapped(ex.shape) \/ IsSingleFenced(ex.shape)) =>
                /\ ex.result.ok
                /\ ex.result.data = JsonDocuments[ex.shape.body]
        /\ IsDoubleFenced(ex.shape) => ~ex.result.ok

\* a valid document in one fence tagged js was refused
C17_Witness ==
    /\ ex.pc = "done"
    /\ IsSingleFenced(ex.shape)
    /\ ex.shape.open = "js"
    /\ ex.shape.newline
    /\ ~ex.result.ok

\* what holds of C17: the same with the tag json as the only language hint
C17_JsonTagSameAsUnwrapped ==
    ex.pc = "done" =>
        /\ ((IsUnwrapped(ex.shape) \/ IsSingleFenced(ex.shape))
                /\ ex.shape.open \in {"none", "plain", "json"}) =>
                /\ ex.result.ok
                /\ ex.result.data = JsonDocuments[ex.shape.body]
        /\ IsDoubleFenced(ex.shape) => ~ex.result.ok

\* C18: a response text with no valid JSON document in it once its fence is
\* removed makes extraction fail with the malformed-response error
\* (ValueError): no payload is returned, not a partial one either, and the
\* logged error context is at most the first 500 characters of the text.
C18_MalformedFailsWithoutPayload ==
    (ex.pc = "done"
        /\ (ex.shape.body \notin DOMAIN JsonDocuments
                \/ IsDoubleFenced(ex.shape))) =>
        /\ ~ex.result.ok
        /\ ex.result.error = "ValueError"
        /\ "data" \notin DOMAIN ex.result
        /\ Len(ex.result.logged) <= 500
        /\ \E i \in 0..Len(ex.text) :
                ex.result.logged
                    = SubSeq(ex.text, i + 1, i + Len(ex.result.logged))

\* a text of more than 500 characters was refused and 500 of them logged
C18_Witness ==
    /\ ex.pc = "done"
    /\ ex.shape.body = LongJunk
    /\ ~ex.result.ok
    /\ Len(ex.result.logged) = 500

----------------------------------------------------------------------------
(* The views that call the model, and the service functions behind them    *)

Views == {"interpret", "enhance", "coaching", "document", "paths"}

\* the endpoint type each view passes to check_rate_limit
ViewEndpointType(view) ==
    CASE view = "interpret" -> "ai_interpret"
      [] view = "enhance"   -> "ai_enhance"
      [] view = "coaching"  -> "ai_coaching"
      [] view = "document"  -> "ai_document"
      [] view = "paths"     -> "ai_paths"

\* permission_classes: AllowAny or IsAuthenticated
RequiresLogin(view) == view \in {"enhance", "coaching", "document"}

\* the user the service function sees (its user argument, and for
\* enhance_evidence user or evidence.user); NoUser stands for None
ServiceUser(view, request) ==
    CASE view = "interpret" -> NoUser
      [] view = "enhance"   -> request.user
      [] view = "coaching"  -> NoUser
      [] view = "document"  -> NoUser
      [] view = "paths"     ->
            IF IsAuthenticated(request.user) THEN request.user ELSE NoUser

\* the interaction_type each service function logs
InteractionType(view) ==
    CASE view = "interpret" -> "title_interpretation"
      [] view = "enhance"   -> "evidence_enhancement"
      [] view = "coaching"  -> "gap_coaching"
      [] view = "document"  -> "doc_generation"
      [] view = "paths"     -> "career_paths"

\* the service function calls chat_json (and so parses the text) or chat
ParsesJson(view) == view # "document"

\* the service function filters a list of the payload against the database
FiltersPayload(view) == view \in {"interpret", "paths"}

\* mutant: the steps in the order of the state machine of the design, the
\* record written after the filter
ServiceSteps_RecordAfterFilter(view, request) ==
    <<"send">>
    \o (IF ParsesJson(view) THEN <<"extract">> ELSE <<>>)
    \o (IF FiltersPayload(view) THEN <<"filter">> ELSE <<>>)
    \o (IF ServiceUser(view, request) # NoUser THEN <<"record">> ELSE <<>>)
    \o <<"return">>

\* mutant: the record written before the model is called
ServiceSteps_RecordFirst(view, request) ==
    (IF ServiceUser(view, request) # NoUser THEN <<"record">> ELSE <<>>)
    \o <<"send">>
    \o (IF ParsesJson(view) THEN <<"extract">> ELSE <<>>)
    \o (IF FiltersPayload(view) THEN <<"filter">> ELSE <<>>)
    \o <<"return">>

\* the statements of a service function inside its try block, in order:
\* chat or chat_json, if user: log_interaction(...), the filter, return
ServiceSteps(view, request) ==
    <<"send">>
    \o (IF ParsesJson(view) THEN <<"extract">> ELSE <<>>)
    \o (IF ServiceUser(view, request) # NoUser THEN <<"record">> ELSE <<>>)
    \o (IF FiltersPayload(view) THEN <<"filter">> ELSE <<>>)
    \o <<"return">>

\* mutant: a view that goes on after a denied check
AfterLimitCheck_IgnoresDenied(allowed) == "limit_checked"

\* if not allowed: return rate_limit_response(...)
AfterLimitCheck(allowed) == IF allowed THEN "limit_checked" ELSE "denied"

\* rate_limit_response(endpoint_type, remaining, reset_time)
rate_limit_response(endpoint_type, remaining, reset_time) ==
    [status      |-> 429,
     retry_after |-> reset_time,
     headers     |-> [remaining |-> remaining, reset |-> reset_time,
                      retry_after |-> reset_time]]

\* the token counts of the one upstream response of the model
UpstreamUsage == [input_tokens |-> 12, output_tokens |-> 5]

\* settings.ANTHROPIC_MODEL
ANTHROPIC_MODEL == <<"claude">>

\* the text CAREER_PATH_USER.format(...) puts after its first 499
\* characters: the template alone is longer than 500 characters and the
\* list of candidate occupations sits in the middle of it, so two prompts of
\* suggest_career_paths can differ only behind character 500
LongText(ch) == [i \in 1..500 |-> IF i = 500 THEN ch ELSE "p"]

\* what the user typed, or the stored text the prompt is made from
UserTexts(view) ==
    IF view = "paths" THEN {LongText("a"), LongText("b")}
    ELSE {<<"p", "a">>, <<"p", "b">>}

\* XXX_USER.format(...): the template of the service function of the view
\* with the user's text in it
FormatPrompt(view, user_input) == <<view>> \o user_input

HexDigits ==
    <<"0", "1", "2", "3", "4", "5", "6", "7",
      "8", "9", "a", "b", "c", "d", "e", "f">>

\* input_text.encode(): the code of a character
Encode(ch) == CASE ch = "p" -> 112 [] ch = "a" -> 97 [] ch = "b" -> 98
                [] OTHER -> 120

RECURSIVE Mix(_, _, _)
\* every character of the text from place lo to place hi goes, with its
\* place, into the value
Mix(text, lo, hi) ==
    IF lo > hi THEN 0
    ELSE IF lo = hi THEN (lo * Encode(text[lo])) % 65521
    ELSE LET mid == (lo + hi) \div 2
         IN  (Mix(text, lo, mid) + Mix(text, mid + 1, hi)) % 65521

\* AIInteractionLog.hash_input: hashlib.sha256(...).hexdigest(), a word of
\* 64 hexadecimal digits that depends on every character of the text; the
\* compression function of SHA-256 is replaced by Mix
hash_input(input_text) ==
    LET h == (Mix(input_text, 1, Len(input_text)) + Len(input_text)) % 65521
    IN  [i \in 1..64 |-> HexDigits[(((h \div i) + i) % 16) + 1]]

\* the input_text a service function passes to log_interaction: the prompt,
\* and prompt[:500] in suggest_career_paths
LoggedInput(view, prompt) ==
    IF view = "paths" THEN Prefix(prompt, 500) ELSE prompt

\* mutant: the row keeps the text itself
UsageRecord_StoresInput(user, interaction_type, input_text, usage) ==
    [user             |-> IF IsAuthenticated(user) THEN user.id ELSE "null",
     interaction_type |-> <<interaction_type>>,
     input_hash       |-> input_text,
     tokens_input     |-> usage.input_tokens,
     tokens_output    |-> usage.output_tokens,
     model_used       |-> ANTHROPIC_MODEL]

\* log_interaction: the row it creates
UsageRecord(user, interaction_type, input_text, usage) ==
    [user             |-> IF IsAuthenticated(user) THEN user.id ELSE "null",
     interaction_type |-> <<interaction_type>>,
     input_hash       |-> hash_input(input_text),
     tokens_input     |-> usage.input_tokens,
     tokens_output    |-> usage.output_tokens,
     model_used       |-> ANTHROPIC_MODEL]

----------------------------------------------------------------------------
(* The payload of a response and the filter against the database          *)

\* onet_soc_code values the model may name
Codes == {"X1", "X2", "X3", "X4"}

\* the rows of Occupation a call may find
Whitelists == {{}, {"X1", "X3"}, {"X2"}, {"X1", "X2", "X3"}}

\* a JSON string where an object is expected
JsonString(s) == [str |-> s]

IsObject(v) == "str" \notin DOMAIN v

\* dict.get(key): None when the key is absent
Get(obj, key) == IF key \in DOMAIN obj THEN obj[key] ELSE "None"

\* the key of the list a service function filters
ListKey(view) == IF view = "interpret" THEN "matches" ELSE "paths"

\* the key of the code in an entry of that list
CodeKey(view) == IF view = "interpret" THEN "code" ELSE "occupation_code"

\* an entry of the list that names the given code
Entry(view, code) ==
    IF view = "interpret" THEN [code |-> code, confidence |-> 1]
    ELSE [occupation_code |-> code, path_type |-> "lateral"]

\* an entry with no code in it
NoCodeEntry == [reasoning |-> "r"]

\* the lists a response may carry: codes in order, out of order, unknown
\* to the database, or missing, and an entry that is no object
EntryLists(view) ==
    LET E(c) == Entry(view, c)
    IN  {<<>>,
         <<E("X2")>>,
         <<E("X4")>>,
         <<E("X1"), NoCodeEntry>>,
         <<E("X1"), JsonString("X3")>>,
         <<E("X1"), E("X2"), E("X3")>>,
         <<E("X3"), E("X2"), E("X1")>>}

\* the text generate_document returns
DocumentText == [content |-> "doc"]

\* what a response can parse to, for each service function
Payloads(view) ==
    CASE view = "interpret" ->
            {[matches |-> l, clarifying_question |-> "q"] :
                    l \in EntryLists(view)}
                \cup {[clarifying_question |-> "q"]}
      [] view = "paths" ->
            {[paths |-> l, encouragement |-> "e"] : l \in EntryLists(view)}
                \cup {[encouragement |-> "e"]}
      [] OTHER -> {[enhanced |-> "t", tip |-> "t"]}

\* mutant: every entry is kept
KeepValid_KeepsAll(entries, key, valid_codes) == entries

\* the list comprehension: the entries whose code is in valid_codes
KeepValid(entries, key, valid_codes) ==
    LET Valid(entry) == Get(entry, key) \in valid_codes
    IN  SelectSeq(entries, Valid)

\* interpret_job_title, lines 109-114; entry.get raises AttributeError on an
\* entry that is no object
FilterMatches(data, valid_codes) ==
    IF "matches" \in DOMAIN data /\ data.matches # <<>>
    THEN IF \E i \in 1..Len(data.matches) : ~IsObject(data.matches[i])
         THEN [ok |-> FALSE, data |-> data]
         ELSE [ok |-> TRUE,
               data |-> [data EXCEPT
                            !.matches = KeepValid(@, "code", valid_codes)]]
    ELSE [ok |-> TRUE, data |-> data]

\* lines 369-379: a kept path gets the row of its occupation when
\* Occupation.objects.get finds it (found: the codes these reads find);
\* Occupation.DoesNotExist is passed over and the path stays as it was
Enrich(path, found) ==
    IF path.occupation_code \in found
    THEN [f \in DOMAIN path \cup {"occupation"} |->
            IF f = "occupation"
            THEN [onet_soc_code |-> path.occupation_code]
            ELSE path[f]]
    ELSE path

\* mutant: an empty list after the filter is an error
FilterPaths_RaisesOnEmpty(data, valid_codes, found) ==
    IF "paths" \in DOMAIN data
    THEN IF \/ \E i \in 1..Len(data.paths) : ~IsObject(data.paths[i])
            \/ KeepValid(data.paths, "occupation_code", valid_codes) = <<>>
         THEN [ok |-> FALSE, data |-> data]
         ELSE LET kept == KeepValid(data.paths, "occupation_code", valid_codes)
              IN  [ok |-> TRUE,
                   data |-> [data EXCEPT
                        !.paths = [i \in 1..Len(kept) |->
                                        Enrich(kept[i], found)]]]
    ELSE [ok |-> TRUE, data |-> data]

\* suggest_career_paths, lines 360-379
FilterPaths(data, valid_codes, found) ==
    IF "paths" \in DOMAIN data
    THEN IF \E i \in 1..Len(data.paths) : ~IsObject(data.paths[i])
         THEN [ok |-> FALSE, data |-> data]
         ELSE LET kept == KeepValid(data.paths, "occupation_code", valid_codes)
              IN  [ok |-> TRUE,
                   data |-> [data EXCEPT
                        !.paths = [i \in 1..Len(kept) |->
                                        Enrich(kept[i], found)]]]
    ELSE [ok |-> TRUE, data |-> data]

\* the filter of the service function of a view
FilterPayload(view, data, valid_codes, found) ==
    IF view = "interpret" THEN FilterMatches(data, valid_codes)
    ELSE FilterPaths(data, valid_codes, found)

----------------------------------------------------------------------------
(* The views and the service functions, step by step                       *)

\* mutant: the request is sent whether or not a key is configured
chat_IgnoresMissingKey(configured, answered) ==
    IF answered THEN "response" ELSE "APIError"

\* ClaudeClient.chat, lines 47-69: ValueError before anything is sent when
\* no key is configured; otherwise one messages.create, whose exception is
\* logged and raised again
chat(configured, answered) ==
    IF ~configured THEN "ValueError"
    ELSE IF answered THEN "response" ELSE "APIError"

GatewayRequests ==
    {Direct(u, AddrA) : u \in {AnonymousUser, FreeUser}}

\* the store as earlier calls of the same window left it: empty, or every
\* counter one call short of its limit
SeededCaches ==
    LET calls == {Call(r, ViewEndpointType(v)) :
                        r \in GatewayRequests, v \in Views}
        Of(k) == CHOOSE c \in calls : RateKey(c) = k
    IN  {<<>>,
         [k \in {RateKey(c) : c \in calls} |->
            [value |-> EffectiveLimit(Of(k)) - 1, ttl |-> Window(Of(k))]]}

\* a cache backend without a ttl method, as Django's own backends are; the
\* runs of the limiter alone take both cases
GatewayInit ==
    /\ cache \in SeededCaches
    /\ hasTtl = FALSE
    /\ apiKey \in BOOLEAN
    /\ gw = NoRequest
    /\ logs = <<>>
    /\ hashed = <<>>
    /\ ex = NoExtraction
    /\ handled = 0
    /\ clients = {}
    /\ win = <<>>
    /\ last = NoLast
    /\ inflight = <<>>
    /\ tally = NoTally
    /\ keys = <<>>
    /\ EmptyStore

GwUnchanged ==
    UNCHANGED <<hasTtl, clients, win, last, concVars, keyVars, exVars, storeVars>>

\* a request reaches the post/get method of a view; user_input is the text
\* the service function will format its prompt from
Receive(view, request, user_input) ==
    /\ gw.pc = "idle"
    /\ handled < MaxRequests
    /\ RequiresLogin(view) => IsAuthenticated(request.user)
    /\ gw' = [NoRequest EXCEPT !.pc = "received", !.view = view,
                               !.request = request,
                               !.prompt = FormatPrompt(view, user_input),
                               !.logs0 = Len(logs)]
    /\ UNCHANGED <<cache, logs, handled, apiKey, hashed>>
    /\ GwUnchanged

\* OccupationPathsView.get, lines 186-202: stored paths are returned and
\* neither the limiter nor the model is called
ServeStoredPaths ==
    /\ gw.pc = "received"
    /\ gw.view = "paths"
    /\ gw' = [gw EXCEPT !.pc = "done", !.status = 200]
    /\ UNCHANGED <<cache, logs, handled, apiKey, hashed>>
    /\ GwUnchanged

\* the view's call of check_rate_limit and its if not allowed: return
LimitCheck ==
    LET call    == Call(gw.request, ViewEndpointType(gw.view))
        current == ReadCurrent(cache, call)
        result  == IF IsDenied(call, current)
                   THEN DeniedResult(cache, hasTtl, call)
                   ELSE AdmittedResult(call, current)
    IN  /\ gw.pc = "received"
        /\ cache' = IF IsDenied(call, current)
                    THEN cache
                    ELSE Consume(cache, call, current)
        /\ gw' = [gw EXCEPT
                    !.pc = AfterLimitCheck(result.allowed),
                    !.limit = result,
                    !.trace = Append(@, "limit_check"),
                    !.status = IF AfterLimitCheck(result.allowed) = "denied"
                               THEN rate_limit_response(call.endpoint_type,
                                        result.remaining, result.reset).status
                               ELSE 0]
        /\ UNCHANGED <<logs, handled, apiKey, hashed>>
        /\ GwUnchanged

\* the view's own checks fail: serializer errors, a missing profile or
\* target, get_object_or_404 (400 or 404, before the service is called)
RejectInput ==
    /\ gw.pc = "limit_checked"
    /\ gw.view # "paths"
    /\ gw' = [gw EXCEPT !.pc = "rejected", !.status = 400]
    /\ UNCHANGED <<cache, logs, handled, apiKey, hashed>>
    /\ GwUnchanged

\* the view calls its service function; interpret_job_title reads the codes
\* of the database (line 72) before it calls the model
Dispatch(codes) ==
    /\ gw.pc = "limit_checked"
    /\ codes = {} \/ gw.view = "interpret"
    /\ gw' = [gw EXCEPT !.pc = "service",
                         !.valid_codes = codes,
                         !.todo = ServiceSteps(gw.view, gw.request)]
    /\ UNCHANGED <<cache, logs, handled, apiKey, hashed>>
    /\ GwUnchanged

\* mutant: the failed step is left as the next thing to do
Failed_TriesAgain(g) == g

\* the exception of a failed step leaves the service function and the view
\* answers 500 (OccupationPathsView: 200 with source 'error')
Failed(g) ==
    [g EXCEPT !.pc = "failed", !.todo = <<>>,
              !.status = IF g.view = "paths" THEN 200 ELSE 500]

\* ClaudeClient.chat: no key configured, the request to the model fails,
\* or the response comes back; generate_document takes the text as it is
Send(answered) ==
    LET outcome == chat(apiKey, answered)
    IN  /\ gw.pc = "service"
        /\ gw.todo # <<>> /\ Head(gw.todo) = "send"
        /\ gw' = CASE outcome = "ValueError" ->
                        Failed([gw EXCEPT !.error = "ValueError: no key"])
                   [] outcome = "APIError" ->
                        Failed([gw EXCEPT !.error = "APIError",
                                          !.sent = @ + 1,
                                          !.trace = Append(@, "model_call")])
                   [] outcome = "response" ->
                        [gw EXCEPT !.todo = Tail(@),
                                   !.sent = @ + 1,
                                   !.trace = Append(@, "model_call"),
                                   !.data = IF ParsesJson(gw.view)
                                            THEN @ ELSE DocumentText]
        /\ UNCHANGED <<cache, logs, handled, apiKey, hashed>>
        /\ GwUnchanged

\* ClaudeClient.chat_json, lines 91-112: the text parses to a payload, or
\* it does not and ValueError is raised
Extract(parsed, payload) ==
    /\ gw.pc = "service"
    /\ gw.todo # <<>> /\ Head(gw.todo) = "extract"
    /\ gw' = IF parsed
             THEN [gw EXCEPT !.todo = Tail(@),
                             !.payload = payload,
                             !.data = payload,
                             !.trace = Append(@, "extracted")]
             ELSE Failed([gw EXCEPT !.error = "ValueError: invalid JSON"])
    /\ UNCHANGED <<cache, logs, handled, apiKey, hashed>>
    /\ GwUnchanged

\* log_interaction: the row is created, or the database raises and the
\* exception leaves the service function
Record(created) ==
    /\ gw.pc = "service"
    /\ gw.todo # <<>> /\ Head(gw.todo) = "record"
    /\ IF created
       THEN /\ logs' = Append(logs,
                    UsageRecord(ServiceUser(gw.view, gw.request),
                                InteractionType(gw.view),
                                LoggedInput(gw.view, gw.prompt),
                                UpstreamUsage))
            /\ hashed' = Append(hashed, gw.prompt)
            /\ gw' = [gw EXCEPT !.todo = Tail(@),
                                !.trace = Append(@, "recorded")]
       ELSE /\ logs' = logs
            /\ hashed' = hashed
            /\ gw' = Failed([gw EXCEPT !.error = "DatabaseError",
                                       !.trace = Append(@, "record_failed")])
    /\ UNCHANGED <<cache, handled, apiKey>>
    /\ GwUnchanged

\* the filter of the payload against the codes of the database: the codes
\* read at line 72 in interpret_job_title, the codes read now (line 362) in
\* suggest_career_paths, whose enrichment then reads each kept occupation
\* again (line 371) and finds the codes of found
Filter(codes, found) ==
    LET valid_codes == IF gw.view = "interpret" THEN gw.valid_codes ELSE codes
        filtered    == FilterPayload(gw.view, gw.data, valid_codes, found)
    IN  /\ gw.pc = "service"
        /\ gw.todo # <<>> /\ Head(gw.todo) = "filter"
        /\ gw.view = "interpret" => codes = gw.valid_codes /\ found = codes
        /\ gw' = IF filtered.ok
                 THEN [gw EXCEPT !.todo = Tail(@),
                                 !.valid_codes = valid_codes,
                                 !.data = filtered.data,
                                 !.trace = Append(@, "validated")]
                 ELSE Failed([gw EXCEPT !.error = "AttributeError",
                                        !.valid_codes = valid_codes])
        /\ UNCHANGED <<cache, logs, handled, apiKey, hashed>>
        /\ GwUnchanged

\* the service function returns its payload and the view answers with it
Return ==
    /\ gw.pc = "service"
    /\ gw.todo # <<>> /\ Head(gw.todo) = "return"
    /\ gw' = [gw EXCEPT !.pc = "returned", !.todo = <<>>,
                         !.result = gw.data,
                         !.trace = Append(@, "returned"),
                         !.status = IF gw.view = "document" THEN 201 ELSE 200]
    /\ UNCHANGED <<cache, logs, handled, apiKey, hashed>>
    /\ GwUnchanged

\* the response is sent and the worker takes the next request
Finish ==
    /\ gw.pc \in {"denied", "rejected", "failed", "returned", "done"}
    /\ gw' = NoRequest
    /\ handled' = handled + 1
    /\ UNCHANGED <<cache, logs, apiKey, hashed>>
    /\ GwUnchanged

GatewayNext ==
    \/ \E view \in Views : \E request \in GatewayRequests :
        \E user_input \in UserTexts(view) :
            Receive(view, request, user_input)
    \/ ServeStoredPaths
    \/ LimitCheck
    \/ RejectInput
    \/ \E codes \in Whitelists : Dispatch(codes)
    \/ \E answered \in BOOLEAN : Send(answered)
    \/ \E parsed \in BOOLEAN : \E payload \in Payloads(gw.view) :
            Extract(parsed, payload)
    \/ \E created \in BOOLEAN : Record(created)
    \/ \E codes \in Whitelists : \E found \in Whitelists :
            Filter(codes, found)
    \/ Return
    \/ Finish

GatewaySpec == GatewayInit /\ [][GatewayNext]_vars

----------------------------------------------------------------------------
(* Claims about the views and service functions (GatewaySpec) *)

\* the place of the first ev in trace t, 0 when it is not there
Pos(t, ev) ==
    IF \E i \in 1..Len(t) : t[i] = ev
    THEN CHOOSE i \in 1..Len(t) : t[i] = ev /\ \A j \in 1..(i - 1) : t[j] # ev
    ELSE 0

Happened(t, ev) == Pos(t, ev) > 0

\* a happened, and before the first b
HappenedBefore(t, a, b) == Happened(t, a) /\ Pos(t, a) < Pos(t, b)

\* the steps of t are each taken once and in the order of ord
InOrder(t, ord) ==
    /\ \A i \in 1..Len(t) : Happened(ord, t[i])
    /\ \A i \in 1..Len(t) : \A j \in 1..Len(t) :
            i < j => Pos(ord, t[i]) < Pos(ord, t[j])

C10_DeniedNeverReachesModel ==
    [][/\ (gw'.pc # "idle" /\ Happened(gw'.trace, "limit_check")
            /\ ~gw'.limit.allowed) =>
                /\ gw'.pc = "denied"
                /\ gw'.status = 429
                /\ ~Happened(gw'.trace, "model_call")
                /\ ~Happened(gw'.trace, "recorded")
                /\ Len(logs') = gw'.logs0
       /\ gw.pc = "denied" => gw'.pc = "idle" /\ logs' = logs
      ]_vars

\* a logged-in user's career-paths request has been denied
C10_Witness ==
    /\ gw.pc = "denied"
    /\ gw.view = "paths"
    /\ IsAuthenticated(gw.request.user)
    /\ gw.status = 429

\* the call being handled was given a user to log for
LogsForUser == ServiceUser(gw.view, gw.request) # NoUser

C12_RecordFailureNeverFailsCall ==
    (gw.pc \notin {"idle", "service"} /\ Happened(gw.trace, "record_failed"))
        => gw.pc = "returned"

\* the record of an evidence-enhancement call could not be written and the
\* call failed with the error of the database
C12_Witness ==
    /\ gw.pc = "failed"
    /\ gw.view = "enhance"
    /\ gw.error = "DatabaseError"
    /\ Happened(gw.trace, "extracted")
    /\ gw.status = 500

\* C13, as stated: every call whose model call succeeds appends exactly one
\* usage record, with the caller's identity when the caller is logged in and
\* a null identity when the caller is anonymous; rows already written are
\* never changed or removed.
C13_OneRecordPerSuccessfulCall ==
    /\ gw.pc = "returned" =>
            /\ Len(logs) = gw.logs0 + 1
            /\ logs[Len(logs)].user
                    = (IF IsAuthenticated(gw.request.user)
                       THEN gw.request.user.id ELSE "null")
    /\ gw.pc # "idle" => Len(logs) >= gw.logs0

\* a title interpretation returned its payload and no record was written
C13_Witness ==
    /\ gw.pc = "returned"
    /\ gw.view = "interpret"
    /\ Len(logs) = gw.logs0

\* the text occurs in the field
Contains(field, text) ==
    \E i \in 0..(Len(field) - Len(text)) :
        SubSeq(field, i + 1, i + Len(text)) = text

\* the text columns of a row
CharFields == {"interaction_type", "input_hash", "model_used"}

\* C14: no field of a stored usage record holds the input text: the row has
\* a digest of fixed length (64 hexadecimal digits) in its place, and two
\* calls with the same input text store the same digest.
C14_OnlyDigestStored ==
    /\ Len(hashed) = Len(logs)
    /\ \A i \in 1..Len(logs) :
            /\ Len(logs[i].input_hash) = 64
            /\ \A d \in 1..64 :
                    \E h \in 1..Len(HexDigits) :
                        logs[i].input_hash[d] = HexDigits[h]
            /\ \A f \in CharFields :
                    /\ ~Contains(logs[i][f], hashed[i])
                    /\ \A view \in Views : \A text \in UserTexts(view) :
                            ~Contains(logs[i][f], text)
            /\ DOMAIN logs[i] = CharFields
                    \cup {"user", "tokens_input", "tokens_output"}
    /\ \A i \in 1..Len(logs) : \A j \in 1..Len(logs) :
            hashed[i] = hashed[j] => logs[i].input_hash = logs[j].input_hash

\* two calls with the same input text have each stored a row
C14_Witness ==
    /\ Len(logs) = 2
    /\ hashed[1] = hashed[2]
    /\ logs[1].input_hash = logs[2].input_hash

\* the payload of the call has a list, and every entry of it is an object
IsListShaped ==
    /\ FiltersPayload(gw.view)
    /\ ListKey(gw.view) \in DOMAIN gw.payload
    /\ \A i \in 1..Len(gw.payload[ListKey(gw.view)]) :
            IsObject(gw.payload[ListKey(gw.view)][i])

\* the places of the entries of the list whose code is in the whitelist
ValidPlaces(entries, key, whitelist) ==
    {i \in 1..Len(entries) :
        key \in DOMAIN entries[i] /\ entries[i][key] \in whitelist}

\* the k-th smallest member of a set of numbers
Nth(places, k) ==
    CHOOSE i \in places : Cardinality({j \in places : j <= i}) = k

\* the entry without what the enrichment added to it
Original(entry) == [f \in DOMAIN entry \ {"occupation"} |-> entry[f]]

\* C15: for every list-shaped payload and whitelist the filter returns
\* exactly the entries whose identifier is in the whitelist at validation
\* time, in their original order, and no entry whose identifier is not in
\* it (X1, X2, X3 with whitelist {X1, X3} yield X1, X3).
C15_FilterKeepsExactlyWhitelisted ==
    (Happened(gw.trace, "validated") /\ IsListShaped) =>
        LET entries == gw.payload[ListKey(gw.view)]
            kept    == gw.data[ListKey(gw.view)]
            places  == ValidPlaces(entries, CodeKey(gw.view), gw.valid_codes)
        IN  /\ Len(kept) = Cardinality(places)
            /\ \A k \in 1..Len(kept) :
                    Original(kept[k]) = entries[Nth(places, k)]
            /\ \A k \in 1..Len(kept) :
                    kept[k][CodeKey(gw.view)] \in gw.valid_codes

\* X1, X2, X3 were filtered against {X1, X3} and X1, X3 are left
C15_Witness ==
    /\ Happened(gw.trace, "validated")
    /\ gw.view = "paths"
    /\ IsListShaped
    /\ gw.payload.paths
            = <<Entry("paths", "X1"), Entry("paths", "X2"),
                Entry("paths", "X3")>>
    /\ gw.valid_codes = {"X1", "X3"}
    /\ Len(gw.data.paths) = 2
    /\ gw.data.paths[1].occupation_code = "X1"
    /\ gw.data.paths[2].occupation_code = "X3"

\* the filter removed every entry of a list that had entries
AllRemoved ==
    /\ IsListShaped
    /\ gw.payload[ListKey(gw.view)] # <<>>
    /\ ValidPlaces(gw.payload[ListKey(gw.view)], CodeKey(gw.view),
                   gw.valid_codes) = {}

C19_NoCredentialNoRequest ==
    (~apiKey /\ gw.pc # "idle") =>
        /\ gw.sent = 0
        /\ ~Happened(gw.trace, "model_call")
        /\ Len(logs) = gw.logs0
        /\ gw.pc # "returned"
        /\ gw.pc = "failed" => gw.error = "ValueError: no key"
        /\ (gw.pc = "service" /\ gw.todo # <<>>) => Head(gw.todo) = "send"

\* a call failed for the missing key
C19_Witness ==
    /\ ~apiKey
    /\ gw.pc = "failed"
    /\ gw.error = "ValueError: no key"
    /\ gw.sent = 0

\* C20: a call makes at most one request to the model: after an error of
\* the transport or of the model service the error goes to the caller and
\* no second attempt is made.
C20_AtMostOneRequest ==
    [][/\ gw'.sent <= 1
       /\ (gw'.error = "APIError" /\ gw'.pc # "idle") =>
                /\ gw'.pc = "failed"
                /\ gw'.sent = 1
                /\ gw'.todo = <<>>
       /\ gw.pc = "failed" => gw'.pc = "idle"
      ]_vars

\* the one request of a call failed and the call failed with it
C20_Witness ==
    /\ gw.pc = "failed"
    /\ gw.error = "APIError"
    /\ gw.sent = 1

----------------------------------------------------------------------------
(* Frame and return value of check_rate_limit (Spec, ConcSpec) *)

\* C26: a denied call leaves the store as it was, count and expiry of every
\* key; an admitted call on a counter that exists adds one to its count and
\* leaves its expiry alone; no step ever prolongs the time a counter has
\* left, so the window of a key is fixed when its counter is created.
C26_DeniedLeavesStoreWindowFixed ==
    [][/\ (IsCallStep /\ ~last'.result.allowed) => cache' = cache
       /\ (IsCallStep /\ last'.result.allowed) =>
            LET key == RateKey(last'.call)
            IN  /\ key \in DOMAIN cache'
                /\ \A k \in DOMAIN cache \ {key} :
                        k \in DOMAIN cache' /\ cache'[k] = cache[k]
                /\ DOMAIN cache' = DOMAIN cache \cup {key}
                /\ key \in DOMAIN cache =>
                        /\ cache'[key].value = cache[key].value + 1
                        /\ cache'[key].ttl = cache[key].ttl
                /\ key \notin DOMAIN cache =>
                        cache'[key]
                            = [value |-> 1, ttl |-> Window(last'.call)]
       /\ \A k \in DOMAIN cache \cap DOMAIN cache' :
                cache'[k].ttl <= cache[k].ttl
      ]_vars

\* a call was admitted on a counter some of whose window had passed, and
\* the counter still has less than a window left
C26_Witness ==
    /\ last.done
    /\ last.result.allowed
    /\ RateKey(last.call) \in DOMAIN cache
    /\ cache[RateKey(last.call)].value >= 2
    /\ cache[RateKey(last.call)].ttl < Window(last.call)

\* a call that was denied, with the counter at its limit
C26_WitnessDenied ==
    /\ last.done
    /\ ~last.result.allowed
    /\ RateKey(last.call) \in DOMAIN cache
    /\ cache[RateKey(last.call)].value = EffectiveLimit(last.call)

\* the call that finishes in this step is the only one in flight
FinishesAlone ==
    /\ Cardinality(DOMAIN inflight) = 1
    /\ \A p \in DOMAIN inflight : inflight[p] = 1
    /\ inflight' = <<>>

\* C27, as stated: whenever a call is admitted, the remaining value it
\* returns is the effective limit minus the count stored right after its
\* own write, also when the counter ran out between the call's read and its
\* increment and was created again at 1; checked for a call that finishes
\* while no other call is in flight.
C27_RemainingMatchesStoredCount ==
    [][(FinishesAlone /\ last'.done /\ last'.result.allowed
            /\ cache' # cache) =>
            /\ RateKey(last'.call) \in DOMAIN cache'
            /\ last'.result.remaining
                = EffectiveLimit(last'.call)
                    - cache'[RateKey(last'.call)].value
      ]_vars

\* the second of two calls read 1, the counter ran out before its increment
\* and was created again at 1: the call reports limit - 2, the store holds 1
C27_Witness ==
    /\ last.done
    /\ last.result.allowed
    /\ tally.started = 2 /\ tally.admitted = 2 /\ tally.elapsed
    /\ inflight = <<>>
    /\ RateKey(last.call) \in DOMAIN cache
    /\ cache[RateKey(last.call)].value = 1
    /\ last.result.remaining = EffectiveLimit(last.call) - 2

----------------------------------------------------------------------------
(* The counter of a request over its whole handling (GatewaySpec) *)

\* the key of the counter of the request being handled
RequestKey(g) == RateKey(Call(g.request, ViewEndpointType(g.view)))

\* the count stored under a key, 0 when there is none
StoredCount(c, key) == IF key \in DOMAIN c THEN c[key].value ELSE 0

\* C21: a request changes its rate counter once: the admitted limit check
\* adds exactly 1 to the counter of the request's own key and to no other,
\* a denied check adds nothing, and nothing in the rest of the handling
\* (rejected input, an error of the model, a failed record or filter, the
\* return of the payload) changes any counter again.
C21_CounterChangesOncePerRequest ==
    [][/\ cache' # cache =>
            /\ gw.pc = "received" /\ gw'.pc = "limit_checked"
            /\ gw'.limit.allowed
       /\ (gw.pc = "received" /\ gw'.pc = "limit_checked") =>
            /\ StoredCount(cache', RequestKey(gw))
                    = StoredCount(cache, RequestKey(gw)) + 1
            /\ \A k \in (DOMAIN cache \cup DOMAIN cache') \ {RequestKey(gw)} :
                    k \in DOMAIN cache /\ k \in DOMAIN cache'
                        /\ cache'[k] = cache[k]
       /\ gw.pc \notin {"idle", "received"} => cache' = cache
      ]_vars

\* an admitted call failed at the model, and its counter holds just the one
\* the limit check added
C21_Witness ==
    /\ gw.pc = "failed"
    /\ gw.error = "APIError"
    /\ gw.limit.allowed
    /\ StoredCount(cache, RequestKey(gw))
            = EffectiveLimit(Call(gw.request, ViewEndpointType(gw.view)))
                - gw.limit.remaining


----------------------------------------------------------------------------
(* The paths a call of suggest_career_paths returns, and the rows it logs   *)

\* OccupationPathsView.get: the occupation the paths are asked for
CurrentOccupation == "X1"

\* the candidates listed in the prompt: every occupation but the current one
Candidates(codes, current) == codes \ {current}

\* AIInteractionLog.INTERACTION_TYPES: the declared values
INTERACTION_TYPES ==
    {"title_interpretation", "evidence_enhancement", "gap_coaching",
     "doc_generation"}

\* a call of suggest_career_paths has returned a list of paths
ReturnedPaths ==
    /\ gw.pc = "returned"
    /\ gw.view = "paths"
    /\ "paths" \in DOMAIN gw.result

\* C24: every path suggest_career_paths returns carries an occupation
\* record whose onet_soc_code is the path's own occupation_code, whatever
\* the reads of the enrichment find.
C24_KeptPathsAreEnriched ==
    ReturnedPaths =>
        \A i \in 1..Len(gw.result.paths) :
            /\ "occupation" \in DOMAIN gw.result.paths[i]
            /\ gw.result.paths[i].occupation.onet_soc_code
                    = gw.result.paths[i].occupation_code

\* a path passed the filter and is returned without an occupation record
C24_Witness ==
    /\ ReturnedPaths
    /\ \E i \in 1..Len(gw.result.paths) :
            /\ gw.result.paths[i].occupation_code \in gw.valid_codes
            /\ "occupation" \notin DOMAIN gw.result.paths[i]

\* C28: no path suggest_career_paths returns names the current occupation.
C28_CurrentOccupationNotReturned ==
    ReturnedPaths =>
        \A i \in 1..Len(gw.result.paths) :
            gw.result.paths[i].occupation_code # CurrentOccupation

\* a returned path names the current occupation, which was no candidate
C28_Witness ==
    /\ ReturnedPaths
    /\ \E i \in 1..Len(gw.result.paths) :
            /\ gw.result.paths[i].occupation_code = CurrentOccupation
            /\ gw.result.paths[i].occupation_code
                    \notin Candidates(gw.valid_codes, CurrentOccupation)
            /\ gw.result.paths[i].occupation_code \in gw.valid_codes

\* C29: the interaction_type of every stored usage record is one of the
\* declared INTERACTION_TYPES.
C29_InteractionTypeIsDeclared ==
    \A i \in 1..Len(logs) :
        \E t \in INTERACTION_TYPES : logs[i].interaction_type = <<t>>

\* a row of suggest_career_paths is stored
C29_Witness ==
    \E i \in 1..Len(logs) : logs[i].interaction_type = <<"career_paths">>

\* C30: the stored input_hash of every recorded call is the digest of the
\* complete user message of that call, and the stored token counts are the
\* counts of the upstream response.
C30_DigestOfCompleteMessage ==
    /\ Len(hashed) = Len(logs)
    /\ \A i \in 1..Len(logs) :
            /\ logs[i].input_hash = hash_input(hashed[i])
            /\ logs[i].tokens_input = UpstreamUsage.input_tokens
            /\ logs[i].tokens_output = UpstreamUsage.output_tokens

\* two recorded calls whose user messages differ have the same stored digest
C30_Witness ==
    /\ Len(logs) = 2
    /\ hashed[1] # hashed[2]
    /\ logs[1].input_hash = logs[2].input_hash
    /\ logs[1].tokens_input = UpstreamUsage.input_tokens


----------------------------------------------------------------------------
(* The documents of a user: DocumentGenerateView.post, lines 72-91, and    *)
(* the task cleanup_old_documents.  The task generate_document_async never *)
(* reaches its create: it calls generate_document with keywords that      *)
(* function does not take, and the TypeError sends it to retry.            *)

\* documents created in a run
MaxDocuments == 3

\* [:5] in cleanup_old_documents
KeepVersions == 5

\* the users who own documents and evidence
Owners == {FreeUser, ProUser}

\* the target occupations the profile of a user has named
Targets(user) == IF user = FreeUser.id THEN {"T1", "T2"} ELSE {"T1"}

\* GeneratedDocument.objects.filter(user=..., target_occupation=...)
DocumentsOf(docs, user, target) ==
    {d \in docs : d.user = user /\ d.target_occupation = target}

\* .count() of these, lines 73-76
ExistingCount(docs, user, target) ==
    Cardinality(DocumentsOf(docs, user, target))

\* GeneratedDocument.objects.create(...): generated_at is the time of the
\* insert (auto_now_add), the id is new
NewDocument(id, user, target, version) ==
    [id |-> id, user |-> user, target_occupation |-> target,
     version |-> version, generated_at |-> id]

\* order_by('-version')[:5] of the documents of one user and target; the
\* database may return documents of equal version in any order
TopVersions(docs) ==
    {K \in SUBSET docs :
        /\ Cardinality(K) = Min(KeepVersions, Cardinality(docs))
        /\ \A a \in K : \A b \in docs \ K : a.version >= b.version}

\* the keep lists of all combinations of user and target
KeepLists(docs) ==
    {K \in SUBSET docs :
        \A o \in Owners : \A t \in Targets(o.id) :
            K \cap DocumentsOf(docs, o.id, t)
                \in TopVersions(DocumentsOf(docs, o.id, t))}

\* mutant: the cutoff date is not looked at
ToDelete_IgnoresCutoff(docs, keep_ids, cutoff_date) ==
    {d \in docs : d \notin keep_ids}

\* filter(generated_at__lt=cutoff_date).exclude(id__in=keep_ids)
ToDelete(docs, keep_ids, cutoff_date) ==
    {d \in docs : d.generated_at < cutoff_date /\ d \notin keep_ids}

\* every variable of the limiter and of the gateway at rest
OthersAtRest ==
    /\ cache = <<>>
    /\ hasTtl = FALSE
    /\ clients = {}
    /\ win = <<>>
    /\ last = NoLast
    /\ inflight = <<>>
    /\ tally = NoTally
    /\ keys = <<>>
    /\ gw = NoRequest
    /\ logs = <<>>
    /\ handled = 0
    /\ apiKey = TRUE
    /\ hashed = <<>>
    /\ ex = NoExtraction

\* the documents of earlier runs: one user has generated four documents
\* for one target occupation, one after the other
SeededDocuments ==
    {NewDocument(n, FreeUser.id, "T1", n) : n \in 1..(KeepVersions - 1)}

DocInit ==
    /\ OthersAtRest
    /\ documents = SeededDocuments
    /\ evidence = {}
    /\ pending = [w \in Workers |-> Idle]
    /\ made = Cardinality(SeededDocuments)
    /\ answer = NoAnswer

DocUnchanged ==
    UNCHANGED <<limiterVars, concVars, keyVars, gwVars, exVars, evidence>>

Busy == {w \in Workers : pending[w] # Idle}

\* DocumentGenerateView.post up to its count of the existing documents,
\* lines 31-76: the text is generated and the count is read
CountExisting(w, user, target) ==
    /\ pending[w] = Idle
    /\ made - Cardinality(SeededDocuments) + Cardinality(Busy)
            < MaxDocuments
    /\ pending' = [pending EXCEPT ![w] =
                        [user |-> user, target_occupation |-> target,
                         existing_count |->
                            ExistingCount(documents, user, target)]]
    /\ UNCHANGED <<documents, made, answer>>
    /\ DocUnchanged

\* lines 78-91: the document is saved with version existing_count + 1 and
\* the view answers 201
CreateDocument(w) ==
    /\ pending[w] # Idle
    /\ LET job == pending[w]
           doc == NewDocument(made + 1, job.user, job.target_occupation,
                              job.existing_count + 1)
       IN  /\ documents' = documents \cup {doc}
           /\ answer' = [op |-> "document_generate", user |-> job.user,
                         pk |-> doc.id, status |-> 201, body |-> {doc}]
    /\ made' = made + 1
    /\ pending' = [pending EXCEPT ![w] = Idle]
    /\ DocUnchanged

\* cleanup_old_documents: one run of the task; cutoff_date is
\* timezone.now() - timedelta(days), keep_ids the lists of lines 275-278
Cleanup(cutoff_date, keep_ids) ==
    LET deleted == ToDelete(documents, keep_ids, cutoff_date)
    IN  /\ documents' = documents \ deleted
        /\ answer' = [op |-> "cleanup_old_documents",
                      cutoff_date |-> cutoff_date,
                      deleted_count |-> Cardinality(deleted)]
        /\ UNCHANGED <<pending, made>>
        /\ DocUnchanged

DocNext ==
    \/ \E w \in Workers : \E o \in Owners : \E t \in Targets(o.id) :
            CountExisting(w, o.id, t)
    \/ \E w \in Workers : CreateDocument(w)
    \/ \E keep_ids \in KeepLists(documents) :
        \E cutoff_date \in 1..(made + 1) :
            Cleanup(cutoff_date, keep_ids)

DocSpec == DocInit /\ [][DocNext]_vars

\* C22: a newly created document has a version above every document of
\* the same user and target occupation that exists when it is created, so
\* no two documents of one user and target share a version.
C22_NewVersionAboveExisting ==
    [][\A d \in documents' \ documents :
            \A e \in DocumentsOf(documents, d.user, d.target_occupation) :
                d.version > e.version]_vars

\* two documents of one user and target occupation have the same version
C22_Witness ==
    \E d \in documents : \E e \in documents :
        /\ d.id # e.id
        /\ d.user = e.user
        /\ d.target_occupation = e.target_occupation
        /\ d.version = e.version

\* C25: a run of cleanup_old_documents deletes only documents generated
\* before the cutoff date, and for every deleted document five documents
\* of the same user and target with a version at least as high remain: the
\* five highest versions of every combination are kept.
C25_CleanupKeepsFiveNewestVersions ==
    [][documents' # documents /\ documents' \subseteq documents =>
            \A d \in documents \ documents' :
                /\ d.generated_at < answer'.cutoff_date
                /\ Cardinality(
                     {e \in DocumentsOf(documents', d.user,
                                        d.target_occupation) :
                            e.version >= d.version}) >= KeepVersions]_vars

\* a run has deleted a document and left the five above it
C25_Witness ==
    /\ answer.op = "cleanup_old_documents"
    /\ answer.deleted_count > 0
    /\ \E o \in Owners : \E t \in Targets(o.id) :
            Cardinality(DocumentsOf(documents, o.id, t)) = KeepVersions


----------------------------------------------------------------------------
(* The endpoints that read and change the documents and the evidence of a  *)
(* user: documents/views.py 100-211, progress/views.py 118-200              *)

\* a row of Evidence
NewEvidence(id, user) ==
    [id |-> id, user |-> user, skill |-> "s1", action |-> "did",
     ai_enhanced_version |-> ""]

\* the rows two users have saved
SeededEvidence == {NewEvidence(11, FreeUser.id), NewEvidence(12, ProUser.id)}

\* the documents two users have generated
SeededStores ==
    {{NewDocument(1, FreeUser.id, "T1", 1),
      NewDocument(2, ProUser.id, "T1", 1)},
     {NewDocument(1, FreeUser.id, "T1", 1)}}

\* the ids a request can name: of documents, of evidence, of nothing
PKs == {1, 2, 11, 12, 99}

\* mutant: the queryset is not narrowed to the requesting user
OwnedBy_Everyone(rows, user) == rows

\* objects.filter(user=request.user)
OwnedBy(rows, user) == {r \in rows : r.user = user}

\* get_object_or_404(Model, pk=pk, user=request.user), and get_object of
\* the generic views on their queryset: the row, or no row (Http404)
Lookup(rows, pk, user) == {r \in OwnedBy(rows, user) : r.id = pk}

\* the response of an endpoint as the observer keeps it
Answered(op, user, pk, status, body) ==
    [op |-> op, user |-> user, pk |-> pk, status |-> status, body |-> body]

\* the counters of ai_enhance one call short of their limits
EnhanceCall(user) == Call(Direct(user, AddrA), "ai_enhance")

SeededEnhanceCache ==
    LET Of(k) == CHOOSE o \in Owners : RateKey(EnhanceCall(o)) = k
    IN  [k \in {RateKey(EnhanceCall(o)) : o \in Owners} |->
            [value |-> EffectiveLimit(EnhanceCall(Of(k))) - 1,
             ttl |-> Window(EnhanceCall(Of(k)))]]

OwnerInit ==
    /\ cache = SeededEnhanceCache
    /\ hasTtl = FALSE
    /\ clients = {}
    /\ win = <<>>
    /\ last = NoLast
    /\ inflight = <<>>
    /\ tally = NoTally
    /\ keys = <<>>
    /\ gw = NoRequest
    /\ logs = <<>>
    /\ handled = 0
    /\ apiKey = TRUE
    /\ hashed = <<>>
    /\ ex = NoExtraction
    /\ documents \in SeededStores
    /\ evidence = SeededEvidence
    /\ pending = [w \in Workers |-> Idle]
    /\ made = Cardinality(documents)
    /\ answer = NoAnswer

OwnerUnchanged ==
    UNCHANGED <<hasTtl, clients, win, last, concVars, keyVars, gwVars,
                exVars, pending, made>>

\* DocumentListView: GET /api/documents/
DocumentList(user) ==
    /\ answer' = Answered("document_list", user, 0, 200,
                          OwnedBy(documents, user))
    /\ UNCHANGED <<cache, documents, evidence>>
    /\ OwnerUnchanged

\* DocumentDetailView: GET /api/documents/{id}/
DocumentDetail(user, pk) ==
    LET found == Lookup(documents, pk, user)
    IN  /\ answer' = IF found = {}
                     THEN Answered("document_detail", user, pk, 404, {})
                     ELSE Answered("document_detail", user, pk, 200, found)
        /\ UNCHANGED <<cache, documents, evidence>>
        /\ OwnerUnchanged

\* DocumentPDFView.get: the document as PDF, as markdown when WeasyPrint is
\* not installed, or 500 when the rendering fails
DocumentPDF(user, pk, rendered) ==
    LET found == Lookup(documents, pk, user)
    IN  /\ answer' = IF found = {}
                     THEN Answered("document_pdf", user, pk, 404, {})
                     ELSE IF rendered = "error"
                     THEN Answered("document_pdf", user, pk, 500, {})
                     ELSE Answered("document_pdf", user, pk, 200, found)
        /\ UNCHANGED <<cache, documents, evidence>>
        /\ OwnerUnchanged

\* EvidenceListCreateView.get_queryset: GET /api/evidence/?skill=
EvidenceList(user, skill_id) ==
    LET own == OwnedBy(evidence, user)
    IN  /\ answer' = Answered("evidence_list", user, 0, 200,
                        IF skill_id # ""
                        THEN {r \in own : r.skill = skill_id} ELSE own)
        /\ UNCHANGED <<cache, documents, evidence>>
        /\ OwnerUnchanged

\* EvidenceDetailView: GET /api/evidence/{id}/
EvidenceRetrieve(user, pk) ==
    LET found == Lookup(evidence, pk, user)
    IN  /\ answer' = IF found = {}
                     THEN Answered("evidence_detail", user, pk, 404, {})
                     ELSE Answered("evidence_detail", user, pk, 200, found)
        /\ UNCHANGED <<cache, documents, evidence>>
        /\ OwnerUnchanged

\* EvidenceDetailView: PATCH /api/evidence/{id}/
EvidenceUpdate(user, pk, action) ==
    LET found   == Lookup(evidence, pk, user)
        updated == {[r EXCEPT !.action = action] : r \in found}
    IN  /\ evidence' = (evidence \ found) \cup updated
        /\ answer' = IF found = {}
                     THEN Answered("evidence_update", user, pk, 404, {})
                     ELSE Answered("evidence_update", user, pk, 200, updated)
        /\ UNCHANGED <<cache, documents>>
        /\ OwnerUnchanged

\* EvidenceDetailView: DELETE /api/evidence/{id}/
EvidenceDestroy(user, pk) ==
    LET found == Lookup(evidence, pk, user)
    IN  /\ evidence' = evidence \ found
        /\ answer' = IF found = {}
                     THEN Answered("evidence_destroy", user, pk, 404, {})
                     ELSE Answered("evidence_destroy", user, pk, 204, {})
        /\ UNCHANGED <<cache, documents>>
        /\ OwnerUnchanged

\* EvidenceEnhanceView.post: the limiter, then the lookup, then
\* enhance_evidence, whose text is saved on the row, or whose exception is
\* answered 500
EvidenceEnhance(request_user, pk, enhanced) ==
    LET user    == request_user.id
        call    == EnhanceCall(request_user)
        current == ReadCurrent(cache, call)
        found   == Lookup(evidence, pk, user)
        saved   == {[r EXCEPT !.ai_enhanced_version = "t"] : r \in found}
    IN  IF IsDenied(call, current)
        THEN /\ answer' = Answered("evidence_enhance", user, pk, 429, {})
             /\ UNCHANGED <<cache, documents, evidence>>
             /\ OwnerUnchanged
        ELSE /\ cache' = Consume(cache, call, current)
             /\ evidence' = IF enhanced THEN (evidence \ found) \cup saved
                            ELSE evidence
             /\ answer' = IF found = {}
                          THEN Answered("evidence_enhance", user, pk, 404, {})
                          ELSE IF enhanced
                          THEN Answered("evidence_enhance", user, pk, 200,
                                        saved)
                          ELSE Answered("evidence_enhance", user, pk, 500, {})
             /\ UNCHANGED documents
             /\ OwnerUnchanged

OwnerNext ==
    \/ \E o \in Owners : DocumentList(o.id)
    \/ \E o \in Owners : \E pk \in PKs : DocumentDetail(o.id, pk)
    \/ \E o \in Owners : \E pk \in PKs :
        \E rendered \in {"pdf", "markdown", "error"} :
            DocumentPDF(o.id, pk, rendered)
    \/ \E o \in Owners : \E skill_id \in {"", "s1", "s2"} :
            EvidenceList(o.id, skill_id)
    \/ \E o \in Owners : \E pk \in PKs : EvidenceRetrieve(o.id, pk)
    \/ \E o \in Owners : \E pk \in PKs : EvidenceUpdate(o.id, pk, "led")
    \/ \E o \in Owners : \E pk \in PKs : EvidenceDestroy(o.id, pk)
    \/ \E o \in Owners : \E pk \in PKs : \E enhanced \in BOOLEAN :
            EvidenceEnhance(o, pk, enhanced)

OwnerSpec == OwnerInit /\ [][OwnerNext]_vars

\* the request just answered named the id of a row of another user
NamedForeignRow ==
    \E r \in documents \cup evidence :
        r.id = answer'.pk /\ r.user # answer'.user

\* the response holds rows of the requesting user only, and the rows of
\* every other user are as they were
OnlyOwnRows ==
    /\ \A r \in answer'.body : r.user = answer'.user
    /\ documents' = documents
    /\ \A r \in (evidence \ evidence') \cup (evidence' \ evidence) :
            r.user = answer'.user

\* the limiter refused the request before any row was looked up
RefusedByLimiter ==
    /\ answer'.op = "evidence_enhance"
    /\ answer'.status = 429
    /\ \E o \in Owners :
            /\ o.id = answer'.user
            /\ IsDenied(EnhanceCall(o), ReadCurrent(cache, EnhanceCall(o)))

\* C23 as stated: every endpoint returns rows of the requesting user only,
\* and a request that names the id of a row of another user is answered
\* 404, with nothing in its body and no row changed.
C23_ForeignIdIsNotFound ==
    [][/\ OnlyOwnRows
       /\ NamedForeignRow =>
            /\ answer'.status = 404
            /\ answer'.body = {}
            /\ evidence' = evidence]_vars

\* C23: every endpoint returns rows of the requesting user only, and a
\* request that names the id of a row of another user is answered 404, or
\* 429 when the limiter of the enhance endpoint refuses it before the
\* lookup; its body is empty and no row is changed.
C23_OwnerIsolation ==
    [][/\ OnlyOwnRows
       /\ NamedForeignRow =>
            /\ answer'.status = 404 \/ RefusedByLimiter
            /\ answer'.body = {}
            /\ evidence' = evidence]_vars

\* a user asked for the PDF of a document of another user and got 404
C23_Witness ==
    /\ answer.op = "document_pdf"
    /\ answer.status = 404
    /\ \E d \in documents : d.id = answer.pk /\ d.user # answer.user

\* a user asked to enhance evidence of another user, the limiter let the
\* call pass, and the answer was 404
C23_WitnessEnhance ==
    /\ answer.op = "evidence_enhance"
    /\ answer.status = 404
    /\ \E r \in evidence : r.id = answer.pk /\ r.user # answer.user

=============================================================================
